---- MODULE Spec2Model ----
(***************************************************************************)
(* The Grover workshop notebooks (Grover_Introduction.ipynb and            *)
(* Grover_ToyExample.ipynb) as a state machine.  A circuit is run stage by *)
(* stage (state preparation, oracle, diffuser, sampling) on a register     *)
(* whose state vector is kept exactly: every gate the notebooks use        *)
(* (Hadamard, PauliX, PauliZ, CZ, CNOT, MultiControlledX) has amplitudes   *)
(* of the form  a / sqrt(2)^k  with a an integer, so a register is a       *)
(* scale k and one integer per basis state with a non-zero amplitude.      *)
(***************************************************************************)
EXTENDS Integers, Sequences, FiniteSets, TLC

----------------------------------------------------------------------------
(* Exact integers of any size.  The amplitudes' numerators outgrow 32 bits *)
(* (49 bits after 8 iterations on the 8-tile grid), so an integer is a     *)
(* sequence of limbs, least significant first, and stands for              *)
(*   x[1] + x[2]*Base + x[3]*Base^2 + ...                                  *)
(* In a normal form the limbs below the top are in 0..Base-1, the top limb *)
(* is in -Base..Base-1, and the top limb of a longer sequence is neither 0 *)
(* nor -1; each integer has exactly one normal form.                       *)

Base == 2^15

\* f as an explicit function (TLC otherwise keeps a constructor unevaluated)
Force(f) == f @@ <<>>

Limb(x, i) == IF i <= Len(x) THEN x[i] ELSE 0

\* the limbs s[i..] with carry c coming in, each brought into 0..Base-1,
\* the last carry kept as the top limb
RECURSIVE Carry(_, _, _)
Carry(s, i, c) ==
    IF i > Len(s)
    THEN IF c >= -Base /\ c < Base
         THEN <<c>>
         ELSE <<c % Base>> \o Carry(s, i, c \div Base)
    ELSE <<(s[i] + c) % Base>> \o Carry(s, i + 1, (s[i] + c) \div Base)

\* drop a top limb that only extends the sign
RECURSIVE Trim(_)
Trim(s) ==
    IF Len(s) > 1 /\ s[Len(s)] \in {0, -1}
    THEN Trim(Append(SubSeq(s, 1, Len(s) - 2),
                     s[Len(s) - 1] + s[Len(s)] * Base))
    ELSE s

\* the normal form of the integer that the limbs s (any integers) stand for
Norm(s) == Trim(Carry(s, 1, 0))

MaxOf(a, b) == IF a >= b THEN a ELSE b

Zero == <<0>>
Big(n) == Norm(<<n>>)
Add(x, y) == Norm(Force([i \in 1..MaxOf(Len(x), Len(y)) |-> Limb(x, i) + Limb(y, i)]))
Sub(x, y) == Norm(Force([i \in 1..MaxOf(Len(x), Len(y)) |-> Limb(x, i) - Limb(y, i)]))
Neg(x) == Norm(Force([i \in 1..Len(x) |-> 0 - x[i]]))
IsNeg(x) == x[Len(x)] < 0
IsEven(x) == x[1] % 2 = 0
\* x / 2 for an even x
Half(x) ==
    Norm(Force([i \in 1..Len(x) |->
        (x[i] \div 2) + (IF i < Len(x) THEN (x[i + 1] % 2) * (Base \div 2) ELSE 0)]))
\* x * Base^n
RECURSIVE Shift(_, _)
Shift(x, n) == IF n = 0 THEN x ELSE Shift(<<0>> \o x, n - 1)
\* x * (y[j] + y[j+1]*Base + ...)
RECURSIVE MulFrom(_, _, _)
MulFrom(x, y, j) ==
    IF j > Len(y) THEN Zero
    ELSE Add(Norm(Force([i \in 1..Len(x) |-> x[i] * y[j]])),
             Shift(MulFrom(x, y, j + 1), 1))
Mul(x, y) == MulFrom(x, y, 1)
Leq(x, y) == ~IsNeg(Sub(y, x))
Less(x, y) == IsNeg(Sub(x, y))
RECURSIVE Pow2(_)
Pow2(k) == IF k < 15 THEN <<2^k>> ELSE <<0>> \o Pow2(k - 15)

----------------------------------------------------------------------------
(* The register.  A basis state is a tuple of bits, one per wire, wire 1   *)
(* first (the notebooks' wire 0, or 't_0').  A register is                 *)
(*   [amp |-> basis state -> integer, over the basis states whose          *)
(*            amplitude is not zero,                                       *)
(*    k   |-> the scale: the amplitude of b is amp[b] / sqrt(2)^k]         *)
(* taken out of halves as far as it goes, so a state has one form.         *)

Flip(b, w) == [b EXCEPT ![w] = 1 - @]

\* qml.device(...): all wires at 0
ZeroState(nWires) == [amp |-> ([i \in 1..nWires |-> 0] :> <<1>>), k |-> 0]

AmpOf(reg, b) == IF b \in DOMAIN reg.amp THEN reg.amp[b] ELSE Zero

\* amp without its zero entries
Support(amp) == Force([b \in {c \in DOMAIN amp : amp[c] # Zero} |-> amp[b]])

\* a / sqrt(2)^k = (a/2) / sqrt(2)^(k-2)
RECURSIVE Reduce(_)
Reduce(reg) ==
    IF reg.k >= 2 /\ \A b \in DOMAIN reg.amp : IsEven(reg.amp[b])
    THEN Reduce([amp |-> Force([b \in DOMAIN reg.amp |-> Half(reg.amp[b])]),
                 k |-> reg.k - 2])
    ELSE reg

\* qml.Hadamard(w): |0> -> (|0>+|1>)/sqrt(2), |1> -> (|0>-|1>)/sqrt(2)
Hadamard(reg, w) ==
    LET dom == DOMAIN reg.amp \cup {Flip(b, w) : b \in DOMAIN reg.amp}
        new == Force([b \in dom |->
                 IF b[w] = 0
                 THEN Add(AmpOf(reg, b), AmpOf(reg, Flip(b, w)))
                 ELSE Sub(AmpOf(reg, Flip(b, w)), AmpOf(reg, b))])
    IN  Reduce([amp |-> Support(new), k |-> reg.k + 1])

\* a PauliX that leaves the register as it is
PauliX_as_identity(reg, w) == reg

\* qml.PauliX(w): |0> <-> |1>
PauliX(reg, w) ==
    [reg EXCEPT !.amp = Force([b \in {Flip(c, w) : c \in DOMAIN reg.amp} |->
                                 reg.amp[Flip(b, w)]])]

\* qml.PauliZ(w): |1> -> -|1>
PauliZ(reg, w) ==
    [reg EXCEPT !.amp = Force([b \in DOMAIN reg.amp |->
                                 IF b[w] = 1 THEN Neg(reg.amp[b]) ELSE reg.amp[b]])]

\* a CZ that leaves the register as it is
CZ_as_identity(reg, a, c) == reg

\* qml.CZ([a, c]): |11> -> -|11>
CZ(reg, a, c) ==
    [reg EXCEPT !.amp = Force([b \in DOMAIN reg.amp |->
                                 IF b[a] = 1 /\ b[c] = 1 THEN Neg(reg.amp[b])
                                 ELSE reg.amp[b]])]

\* qml.CNOT(wires=[c, t]): flips t where c is 1
CNOTmap(b, c, t) == IF b[c] = 1 THEN Flip(b, t) ELSE b
CNOT(reg, c, t) ==
    [reg EXCEPT !.amp = Force([b \in {CNOTmap(d, c, t) : d \in DOMAIN reg.amp} |->
                                 reg.amp[CNOTmap(b, c, t)]])]

\* qml.MultiControlledX: flips the target where every control wire has its
\* control value (all 1 unless control_values says otherwise)
MCXfires(b, controls, values) == \A i \in 1..Len(controls) : b[controls[i]] = values[i]
MCXmap(b, controls, target, values) ==
    IF MCXfires(b, controls, values) THEN Flip(b, target) ELSE b
MultiControlledX(reg, controls, target, values) ==
    [reg EXCEPT !.amp =
        Force([b \in {MCXmap(d, controls, target, values) : d \in DOMAIN reg.amp} |->
                 reg.amp[MCXmap(b, controls, target, values)]])]
\* U_0 of the diffusion operator's definition on the qubits ws: the sign of
\* every state but the one with all of ws at 0 is changed
U_0(reg, ws) ==
    [reg EXCEPT !.amp =
        Force([b \in DOMAIN reg.amp |->
                 IF \A i \in 1..Len(ws) : b[ws[i]] = 0 THEN reg.amp[b]
                 ELSE Neg(reg.amp[b])])]

Ones(n) == [i \in 1..n |-> 1]

----------------------------------------------------------------------------
(* Operations.  Calling qml.Hadamard(...) inside a circuit function queues *)
(* the operation; the device then applies the queued operations in order.  *)
(* A circuit function is therefore the sequence of operations it queues,   *)
(* and wires are the labels the notebook uses (0, 1, ... in the            *)
(* introduction, <<"t", 0>> for 't_0' in the toy example); the device's    *)
(* wire list gives each label its position in a basis state.               *)

Op(name, wires) == [name |-> name, wires |-> wires, control_values |-> <<>>]
OpCV(name, wires, cv) == [name |-> name, wires |-> wires, control_values |-> cv]

\* [f(x) for x in xs]
Each(name, xs) == [i \in 1..Len(xs) |-> Op(name, <<xs[i]>>)]
\* range(n)
Range(n) == [i \in 1..n |-> i - 1]

Pos(wires, label) == CHOOSE i \in 1..Len(wires) : wires[i] = label

Apply(reg, op, wires) ==
    LET p == [i \in 1..Len(op.wires) |-> Pos(wires, op.wires[i])]
        m == Len(p)
    IN  CASE op.name = "Hadamard" -> Hadamard(reg, p[1])
          [] op.name = "PauliX"   -> PauliX(reg, p[1])
          [] op.name = "PauliZ"   -> PauliZ(reg, p[1])
          [] op.name = "CZ"       -> CZ(reg, p[1], p[2])
          [] op.name = "CNOT"     -> CNOT(reg, p[1], p[2])
          [] op.name = "U_0"      -> U_0(reg, p)
          [] op.name = "MultiControlledX" ->
                MultiControlledX(reg, SubSeq(p, 1, m - 1), p[m],
                                 IF op.control_values = <<>> THEN Ones(m - 1)
                                 ELSE op.control_values)

\* the device applies ops[lo..hi] in order
RECURSIVE Run(_, _, _, _, _)
Run(reg, ops, wires, lo, hi) ==
    IF lo > hi THEN reg
    ELSE IF lo = hi THEN Apply(reg, ops[lo], wires)
    ELSE LET mid  == (lo + hi) \div 2
             half == Run(reg, ops, wires, lo, mid)
         IN  IF half.k >= 0 THEN Run(half, ops, wires, mid + 1, hi) ELSE half
Execute(reg, ops, wires) == Run(reg, ops, wires, 1, Len(ops))

----------------------------------------------------------------------------
(* Grover_ToyExample.ipynb *)

\* diffuser without its PauliX layers: the sign of |11..1> is changed
\* instead of that of |00..0>
diffuser_without_X(qubits) ==
    LET n == Len(qubits)
    IN  Each("Hadamard", qubits)
        \o <<Op("Hadamard", <<qubits[n]>>),
             Op("MultiControlledX", SubSeq(qubits, 1, n - 1) \o <<qubits[n]>>),
             Op("Hadamard", <<qubits[n]>>)>>
        \o Each("Hadamard", qubits)

\* diffuser(qubits)
diffuser(qubits) ==
    LET n == Len(qubits)
    IN  Each("Hadamard", qubits)
        \o Each("PauliX", qubits)
        \o <<Op("Hadamard", <<qubits[n]>>),
             Op("MultiControlledX", SubSeq(qubits, 1, n - 1) \o <<qubits[n]>>),
             Op("Hadamard", <<qubits[n]>>)>>
        \o Each("PauliX", qubits)
        \o Each("Hadamard", qubits)

\* clause_list of the 2 x 2 grid (solution 1.1.1)
clause_list_4 == <<<<0, 1>>, <<0, 2>>, <<1, 3>>, <<2, 3>>>>

\* tile_qubits, clause_qubits, result_qubits (solution 1.1.2)
Tiles(n) == [i \in 1..n |-> <<"t", i - 1>>]
Clauses(m) == [i \in 1..m |-> <<"c", i - 1>>]
Results == <<<<"r", 0>>>>
\* flatten_list([tile_qubits, clause_qubits, result_qubits])
flatten_list(lists) == lists[1] \o lists[2] \o lists[3]

\* xor without its second CNOT
xor_first_input_only(input_qubits, output_qubits) ==
    <<Op("CNOT", <<input_qubits[1], output_qubits[1]>>)>>

\* xor(input_qubits, output_qubits)
xor(input_qubits, output_qubits) ==
    <<Op("CNOT", <<input_qubits[1], output_qubits[1]>>),
      Op("CNOT", <<input_qubits[2], output_qubits[1]>>)>>

\* clause_circuit(clause_list, tile_qubits, clause_qubits): clause i (from 0)
\* queues its xor onto clause qubit i
RECURSIVE clause_from(_, _, _, _)
clause_from(clause_list, tile_qubits, clause_qubits, i) ==
    IF i >= Len(clause_list) THEN <<>>
    ELSE xor(<<tile_qubits[clause_list[i + 1][1] + 1],
               tile_qubits[clause_list[i + 1][2] + 1]>>,
             <<clause_qubits[i + 1]>>)
         \o clause_from(clause_list, tile_qubits, clause_qubits, i + 1)
\* clause_circuit whose i stays 0: every xor goes onto clause qubit 0
clause_circuit_without_increment(clause_list, tile_qubits, clause_qubits) ==
    clause_from(clause_list, tile_qubits,
                [i \in 1..Len(clause_list) |-> clause_qubits[1]], 0)
clause_circuit(clause_list, tile_qubits, clause_qubits) ==
    clause_from(clause_list, tile_qubits, clause_qubits, 0)

\* oracle whose MultiControlledX has the result qubit first: its target is
\* the last clause qubit
oracle_result_first(clause_list, tile_qubits, clause_qubits, result_qubits) ==
    clause_circuit(clause_list, tile_qubits, clause_qubits)
    \o <<Op("MultiControlledX", result_qubits \o clause_qubits)>>
    \o clause_circuit(clause_list, tile_qubits, clause_qubits)

\* oracle(clause_list, tile_qubits, clause_qubits, result_qubits)
oracle(clause_list, tile_qubits, clause_qubits, result_qubits) ==
    clause_circuit(clause_list, tile_qubits, clause_qubits)
    \o <<Op("MultiControlledX", clause_qubits \o result_qubits)>>
    \o clause_circuit(clause_list, tile_qubits, clause_qubits)

\* init_states without the PauliX: the result qubit is in |+>
init_states_without_X(tile_qubits, result_qubits) ==
    Each("Hadamard", tile_qubits) \o <<Op("Hadamard", <<result_qubits[1]>>)>>

\* init_states(tile_qubits, result_qubits)
init_states(tile_qubits, result_qubits) ==
    Each("Hadamard", tile_qubits)
    \o <<Op("PauliX", <<result_qubits[1]>>), Op("Hadamard", <<result_qubits[1]>>)>>

\* grover_iteration(clause_list, tile_qubits, clause_qubits, result_qubits)
grover_iteration(clause_list, tile_qubits, clause_qubits, result_qubits) ==
    oracle(clause_list, tile_qubits, clause_qubits, result_qubits)
    \o diffuser(tile_qubits)

\* the clause list of a grid two tiles wide, tiles numbered row by row: one
\* clause per pair of tiles that share an edge (grid_6, grid_8: Tasks 2 and 3)
grid_clause_list(n) ==
    [i \in 1..(n \div 2) |-> <<2 * (i - 1), 2 * (i - 1) + 1>>]
    \o [i \in 1..(n - 2) |-> <<i - 1, i + 1>>]

\* "neighbouring tiles at edges are not allowed to have the same number"
BitStrings(n) == [1..n -> {0, 1}]
Satisfies(t, clause_list) ==
    \A i \in 1..Len(clause_list) : t[clause_list[i][1] + 1] # t[clause_list[i][2] + 1]
Solutions(n, clause_list) == {t \in BitStrings(n) : Satisfies(t, clause_list)}

\* ops repeated R times: for _ in range(R)
RECURSIVE Repeat(_, _)
Repeat(ops, R) == IF R = 0 THEN <<>> ELSE ops \o Repeat(ops, R - 1)

\* grover(...): init_states, then grover_iteration (oracle, diffuser); once
\* in the notebook's grover, R times in the configurations of Task 3
grover(R) == <<"init_states">> \o Repeat(<<"oracle", "diffuser">>, R)

----------------------------------------------------------------------------
(* Grover_Introduction.ipynb *)

\* Solution 1.1
state_preparation_gates_2q == Each("Hadamard", Range(2))

\* oracle_gates with a CNOT in place of the CZ
oracle_gates_2q_with_CNOT == <<Op("CNOT", <<0, 1>>)>>

\* Solution 1.3
oracle_gates_2q == <<Op("CZ", <<0, 1>>)>>

\* diffusion_gates without its PauliZ: only the sign of |11> is changed
diffusion_gates_2q_without_Z ==
    Each("Hadamard", Range(2)) \o <<Op("CZ", <<0, 1>>)>> \o Each("Hadamard", Range(2))

\* Solution 1.5
diffusion_gates_2q ==
    <<Op("Hadamard", <<0>>), Op("PauliZ", <<0>>),
      Op("Hadamard", <<1>>), Op("PauliZ", <<1>>)>>
    \o <<Op("CZ", <<0, 1>>)>>
    \o Each("Hadamard", Range(2))

n_qubits == 4

\* state preparation that leaves the last qubit out
state_preparation_gates_but_last(n) == Each("Hadamard", Range(n - 1))

\* Solution 2.1
state_preparation_gates(n) == Each("Hadamard", Range(n))

\* the oracle "edited when changing the dimensionality or the solution
\* state": oracle_gates for n qubits and a solution whose last bit is 1,
\* the other bits being the control values
oracle_gates_for(n, solution) ==
    <<Op("Hadamard", <<n - 1>>),
      OpCV("MultiControlledX", Range(n), SubSeq(solution, 1, n - 1)),
      Op("Hadamard", <<n - 1>>)>>

\* oracle_gates without control_values: every control must be 1
oracle_gates_all_ones(n) ==
    <<Op("Hadamard", <<n - 1>>),
      Op("MultiControlledX", <<0, 1, 2, 3>>),
      Op("Hadamard", <<n - 1>>)>>

\* Solution 2.2
oracle_gates(n) ==
    <<Op("Hadamard", <<n - 1>>),
      OpCV("MultiControlledX", <<0, 1, 2, 3>>, <<1, 0, 0>>),
      Op("Hadamard", <<n - 1>>)>>

\* diffusion_gates without its PauliX layers: the sign of |11..1> is changed
diffusion_gates_without_X(n) ==
    Each("Hadamard", Range(n))
    \o <<Op("Hadamard", <<n - 1>>),
         Op("MultiControlledX", Range(n)),
         Op("Hadamard", <<n - 1>>)>>
    \o Each("Hadamard", Range(n))

\* the diffusor as the text before Task 2.3 first describes it: rotate the
\* start state back to the zero state, change the sign of all but the
\* |00...0> state, rotate back
diffusor_all_but_zero(qubits) ==
    Each("Hadamard", qubits) \o <<Op("U_0", qubits)>> \o Each("Hadamard", qubits)

\* Solution 2.3
diffusion_gates(n) ==
    Each("Hadamard", Range(n))
    \o Each("PauliX", Range(n))
    \o <<Op("Hadamard", <<n - 1>>),
         Op("MultiControlledX", Range(n)),
         Op("Hadamard", <<n - 1>>)>>
    \o Each("PauliX", Range(n))
    \o Each("Hadamard", Range(n))

\* a single Grover iteration whatever n_qubits is
grover_iterations_single(n) == 1

\* int(np.ceil(np.sqrt(2**n_qubits)*np.pi/4.0 - 0.5)): the least k with
\* k >= sqrt(N)*pi/4 - 1/2, that is (4k+2)^2 >= pi^2 * N, N = 2^n; pi^2 lies
\* between 9.8696 and 9.8697 and no N used here falls between the two
grover_iterations(n) ==
    CHOOSE k \in 0..(2^n) :
        /\ (4 * k + 2) * (4 * k + 2) * 10000 >= 98697 * (2^n)
        /\ \A j \in 0..(k - 1) : (4 * j + 2) * (4 * j + 2) * 10000 <= 98696 * (2^n)

\* the circuit functions: the stages each calls, in order, before it samples
state_preparation_circuit == <<"state_preparation_gates">>
oracle_circuit == <<"oracle_gates">>
preparation_and_oracle_circuit == <<"state_preparation_gates", "oracle_gates">>
diffusion_circuit == <<"diffusion_gates">>
grover_circuit_2q == <<"state_preparation_gates", "oracle_gates", "diffusion_gates">>
\* grover_circuit with the diffusion queued before the oracle
grover_circuit_diffusion_first(iterations) ==
    <<"state_preparation_gates">> \o Repeat(<<"diffusion_gates", "oracle_gates">>, iterations)

grover_circuit(iterations) ==
    <<"state_preparation_gates">> \o Repeat(<<"oracle_gates", "diffusion_gates">>, iterations)

----------------------------------------------------------------------------
(* Running a circuit.  circuit is the circuit being run:                   *)
(*   nb  the notebook section ("intro2": the two-qubit example, "introN":  *)
(*       the higher dimensional example, "toy": the toy example),          *)
(*   fn  the circuit function, n the number of qubits (tiles in the toy    *)
(*       example), R the number of Grover iterations, clause_list the toy  *)
(*       example's clauses.                                                *)
(* pc counts the stages done, tape lists them, register is the state of    *)
(* the device's wires, input the state it started from and outcome the     *)
(* distribution of the measured wires once the circuit has been sampled.   *)
(* mirror is a second register, used only where two variants of a circuit  *)
(* run side by side on the same input.  history lists the probability of   *)
(* the solution after 0, 1, 2, ... Grover iterations where a run records   *)
(* it, steps is a calculation of Task 3 of the toy example, and globals    *)
(* the names bound in the notebook's kernel where cells are run in any     *)
(* order.                                                                  *)

VARIABLES circuit, pc, register, input, tape, outcome, mirror,
          history, steps, globals

vars == <<circuit, pc, register, input, tape, outcome, mirror,
          history, steps, globals>>

\* what the circuits leave alone: the record of the solution's probability
\* per iteration, the iteration steps calculated in Task 3 and the global
\* names of the notebook's kernel
rest == <<history, steps, globals>>
NoHistory == <<>>
NoSteps == [formula |-> "none", n |-> 0, M |-> 0, tenths |-> 0]
NoGlobals == <<>>
RestUnused == history = NoHistory /\ steps = NoSteps /\ globals = NoGlobals

Cfg(nb, fn, n, R, cl) == [nb |-> nb, fn |-> fn, n |-> n, R |-> R, clause_list |-> cl]

\* the rows of the Task 3 probability table: iterations per number of tiles
Task3Rows == {<<4, 1>>, <<4, 2>>,
              <<6, 1>>, <<6, 2>>, <<6, 3>>, <<6, 4>>,
              <<8, 1>>, <<8, 2>>, <<8, 3>>, <<8, 4>>, <<8, 8>>}

ClauseListOf(n) == IF n = 4 THEN clause_list_4 ELSE grid_clause_list(n)

NotebookCircuits ==
    {Cfg("intro2", fn, 2, 1, <<>>) :
        fn \in {"state_preparation_circuit", "oracle_circuit",
                "preparation_and_oracle_circuit", "diffusion_circuit",
                "grover_circuit"}}
    \cup {Cfg("introN", "grover_circuit", n_qubits, grover_iterations(n_qubits), <<>>)}
    \cup {Cfg("toy", fn, 4, 1, clause_list_4) : fn \in {"xor", "clause_circuit", "oracle"}}
    \cup {Cfg("toy", "grover", row[1], row[2], ClauseListOf(row[1])) : row \in Task3Rows}

\* the stages of the circuit function
Body(c) ==
    CASE c.nb = "intro2" /\ c.fn = "state_preparation_circuit" -> state_preparation_circuit
      [] c.nb = "intro2" /\ c.fn = "oracle_circuit" -> oracle_circuit
      [] c.nb = "intro2" /\ c.fn = "preparation_and_oracle_circuit" ->
            preparation_and_oracle_circuit
      [] c.nb = "intro2" /\ c.fn = "diffusion_circuit" -> diffusion_circuit
      [] c.nb = "intro2" /\ c.fn = "grover_circuit" -> grover_circuit_2q
      [] c.nb = "introN" /\ c.fn = "grover_circuit" -> grover_circuit(c.R)
      [] c.nb = "toy" /\ c.fn = "grover" -> grover(c.R)
      [] c.nb = "toy" /\ c.fn \in {"xor", "clause_circuit", "oracle"} -> <<c.fn>>
      \* one function of the notebook run by itself
      [] c.nb = "toy" /\ c.fn \in {"diffuser", "init_states"} -> <<c.fn>>
      [] c.nb = "introN" /\ c.fn \in {"state_preparation_gates", "oracle_gates",
                                       "diffusion_gates"} -> <<c.fn>>

tile_qubits(c) == Tiles(c.n)
clause_qubits(c) == Clauses(Len(c.clause_list))

\* the device's wires
Wires(c) ==
    IF c.nb = "toy" THEN flatten_list(<<tile_qubits(c), clause_qubits(c), Results>>)
    ELSE Range(c.n)

\* qml.sample() measures every wire, execute's qml.sample(wires=tile_qubits)
\* the tiles
Measured(c) == IF c.nb = "toy" THEN tile_qubits(c) ELSE Range(c.n)

\* the operations a stage queues
StageOps(c, stage) ==
    CASE stage = "state_preparation_gates" ->
            IF c.nb = "intro2" THEN state_preparation_gates_2q
            ELSE state_preparation_gates(c.n)
      [] stage = "oracle_gates" ->
            IF c.nb = "intro2" THEN oracle_gates_2q ELSE oracle_gates(c.n)
      [] stage = "diffusion_gates" ->
            IF c.nb = "intro2" THEN diffusion_gates_2q ELSE diffusion_gates(c.n)
      [] stage = "init_states" -> init_states(tile_qubits(c), Results)
      [] stage = "oracle" ->
            oracle(c.clause_list, tile_qubits(c), clause_qubits(c), Results)
      [] stage = "diffuser" -> diffuser(tile_qubits(c))
      [] stage = "xor" -> xor(tile_qubits(c), clause_qubits(c))
      [] stage = "clause_circuit" ->
            clause_circuit(c.clause_list, tile_qubits(c), clause_qubits(c))

\* qml.sample(wires): the distribution of the measured wires; the bit string
\* m has probability num[m] / 2^k
RECURSIVE SumSquares(_, _)
SumSquares(reg, bs) ==
    IF bs = {} THEN Zero
    ELSE LET b == CHOOSE x \in bs : TRUE
         IN  Add(Mul(reg.amp[b], reg.amp[b]), SumSquares(reg, bs \ {b}))
Sampled(reg, wires, measured) ==
    LET p == [i \in 1..Len(measured) |-> Pos(wires, measured[i])]
        Seen(b) == [i \in 1..Len(p) |-> b[p[i]]]
    IN  [num |-> Force([m \in {Seen(b) : b \in DOMAIN reg.amp} |->
                          SumSquares(reg, {b \in DOMAIN reg.amp : Seen(b) = m})]),
         k |-> reg.k]

NotSampled == [num |-> <<>>, k |-> 0]

Init ==
    /\ circuit \in NotebookCircuits
    /\ pc = 0
    /\ input = ZeroState(Len(Wires(circuit)))
    /\ register = input
    /\ tape = <<>>
    /\ outcome = NotSampled
    /\ mirror = input
    /\ RestUnused

\* the next call of the circuit function is `stage`
Calls(stage) == pc < Len(Body(circuit)) /\ Body(circuit)[pc + 1] = stage

\* the operations of `stage` run on the register
Runs(stage) ==
    /\ register' = Execute(register, StageOps(circuit, stage), Wires(circuit))
    /\ pc' = pc + 1
    /\ tape' = Append(tape, stage)
    /\ UNCHANGED <<circuit, input, outcome, mirror, rest>>

StatePreparationGates ==
    /\ Calls("state_preparation_gates")
    /\ Runs("state_preparation_gates")

OracleGates ==
    /\ Calls("oracle_gates")
    /\ Runs("oracle_gates")

DiffusionGates ==
    /\ Calls("diffusion_gates")
    /\ Runs("diffusion_gates")

InitStates ==
    /\ Calls("init_states")
    /\ Runs("init_states")

Oracle ==
    /\ Calls("oracle")
    /\ Runs("oracle")

Diffuser ==
    /\ Calls("diffuser")
    /\ Runs("diffuser")

Xor ==
    /\ Calls("xor")
    /\ Runs("xor")

ClauseCircuit ==
    /\ Calls("clause_circuit")
    /\ Runs("clause_circuit")

\* return qml.sample(...)
Sample ==
    /\ pc = Len(Body(circuit))
    /\ outcome' = Sampled(register, Wires(circuit), Measured(circuit))
    /\ pc' = pc + 1
    /\ tape' = Append(tape, "sample")
    /\ UNCHANGED <<circuit, input, register, mirror, rest>>

Next ==
    \/ StatePreparationGates
    \/ OracleGates
    \/ DiffusionGates
    \/ InitStates
    \/ Oracle
    \/ Diffuser
    \/ Xor
    \/ ClauseCircuit
    \/ Sample

Spec == Init /\ [][Next]_vars

----------------------------------------------------------------------------
(* The notebook's functions on any input.  The notebook runs each circuit  *)
(* on the device's all-zero register; what a function does to every state  *)
(* is checked by running it alone on the basis states and on the           *)
(* superpositions (|x> + |y>)/sqrt(2) and (|x> - |y>)/sqrt(2) of two basis *)
(* states, which span the register (every gate is linear).                 *)

MaxQubits == 3
MaxClauses == 2

\* the register sizes a function of the higher dimensional example is run on
Sizes == (2..MaxQubits) \cup {n_qubits}

BasisReg(b) == [amp |-> (b :> <<1>>), k |-> 0]
PairReg(x, y, s) == [amp |-> (x :> <<1>>) @@ (y :> <<s>>), k |-> 1]
BasisStates(n) == {BasisReg(b) : b \in BitStrings(n)}
TileStates(n) ==
    BasisStates(n)
    \cup {PairReg(x, y, s) : <<x, y>> \in {q \in BitStrings(n) \X BitStrings(n) : q[1] # q[2]},
                             s \in {1, -1}}

\* the tiles in state ts, the m clause qubits at 0, the result qubit at |0>
\* (result = "zero") or at |-> = (|0> - |1>)/sqrt(2) (result = "minus")
Embed(ts, m, result) ==
    LET zeros == [i \in 1..m |-> 0]
    IN  IF result = "zero"
        THEN [amp |-> Force([b \in {t \o zeros \o <<0>> : t \in DOMAIN ts.amp} |->
                               ts.amp[SubSeq(b, 1, Len(b) - m - 1)]]),
              k |-> ts.k]
        ELSE [amp |-> Force([b \in {t \o zeros \o <<r>> : t \in DOMAIN ts.amp, r \in {0, 1}} |->
                               IF b[Len(b)] = 0 THEN ts.amp[SubSeq(b, 1, Len(b) - m - 1)]
                               ELSE Neg(ts.amp[SubSeq(b, 1, Len(b) - m - 1)])]),
              k |-> ts.k + 1]

\* clause lists of up to MaxClauses clauses over three tiles
Pairs3 == {<<0, 1>>, <<0, 2>>, <<1, 2>>}
SmallClauseLists == UNION {[1..m -> Pairs3] : m \in 1..MaxClauses}

GateCircuits ==
    {Cfg("intro2", fn, 2, 1, <<>>) :
        fn \in {"state_preparation_circuit", "oracle_circuit", "diffusion_circuit",
                "preparation_and_oracle_circuit"}}
    \cup {Cfg("introN", fn, n, 1, <<>>) :
            fn \in {"state_preparation_gates", "diffusion_gates"}, n \in Sizes}
    \cup {Cfg("introN", "oracle_gates", n_qubits, 1, <<>>)}
    \cup {Cfg("toy", fn, 4, 1, clause_list_4) :
            fn \in {"xor", "clause_circuit", "oracle", "diffuser", "init_states"}}
    \cup {Cfg("toy", "clause_circuit", n, 1, grid_clause_list(n)) : n \in {6, 8}}
    \cup {Cfg("toy", "oracle", 3, 1, cl) : cl \in SmallClauseLists}

Inputs(c) ==
    CASE c.nb # "toy" -> TileStates(c.n)
      [] c.nb = "toy" /\ c.fn = "oracle" ->
            {Embed(ts, Len(c.clause_list), result) :
                ts \in TileStates(c.n), result \in {"minus", "zero"}}
      [] c.nb = "toy" /\ c.fn = "diffuser" ->
            {Embed(ts, Len(c.clause_list), "zero") : ts \in TileStates(c.n)}
      [] c.nb = "toy" /\ c.fn \in {"xor", "clause_circuit", "init_states"} ->
            {Embed(ts, Len(c.clause_list), "zero") : ts \in BasisStates(c.n)}

InitGates ==
    /\ circuit \in GateCircuits
    /\ pc = 0
    /\ input \in Inputs(circuit)
    /\ register = input
    /\ tape = <<>>
    /\ outcome = NotSampled
    /\ mirror = input
    /\ RestUnused

SpecGates == InitGates /\ [][Next]_vars

----------------------------------------------------------------------------
(* The two variants of the diffusor side by side.  register runs the       *)
(* general diffusor of the code, which changes the sign of only the        *)
(* |00...0> state between its Hadamard layers; mirror runs, on the same    *)
(* input, the variant that changes the sign of every state but |00...0>    *)
(* (for 2 qubits the diffusion_gates of Solution 1.5).  A circuit is the   *)
(* diffusor repeated ("diffuser") or the Grover iteration, oracle then     *)
(* diffusor, repeated ("iteration"); pc counts the repetitions.            *)

MaxIterations == 3

VariantCircuits ==
    {Cfg("intro2", fn, 2, MaxIterations, <<>>) : fn \in {"diffuser", "iteration"}}
    \cup {Cfg("introN", "diffuser", n, MaxIterations, <<>>) : n \in Sizes}
    \cup {Cfg("introN", "iteration", n_qubits, MaxIterations, <<>>)}
    \cup {Cfg("toy", fn, 4, MaxIterations, clause_list_4) : fn \in {"diffuser", "iteration"}}

GeneralDiffusor(c) ==
    IF c.nb = "toy" THEN diffuser(tile_qubits(c)) ELSE diffusion_gates(c.n)
AllButZeroDiffusor(c) ==
    CASE c.nb = "intro2" -> diffusion_gates_2q
      [] c.nb = "introN" -> diffusor_all_but_zero(Range(c.n))
      [] c.nb = "toy"    -> diffusor_all_but_zero(tile_qubits(c))
OracleOf(c) == StageOps(c, IF c.nb = "toy" THEN "oracle" ELSE "oracle_gates")

InitVariants ==
    /\ circuit \in VariantCircuits
    /\ pc = 0
    /\ input \in IF circuit.nb = "toy"
                 THEN {Embed(ts, Len(circuit.clause_list), "minus") : ts \in TileStates(circuit.n)}
                 ELSE TileStates(circuit.n)
    /\ register = input
    /\ mirror = input
    /\ RestUnused
    /\ tape = <<>>
    /\ outcome = NotSampled

DiffuserBoth ==
    /\ circuit.fn = "diffuser" /\ pc < circuit.R /\ outcome = NotSampled
    /\ register' = Execute(register, GeneralDiffusor(circuit), Wires(circuit))
    /\ mirror' = Execute(mirror, AllButZeroDiffusor(circuit), Wires(circuit))
    /\ pc' = pc + 1
    /\ tape' = Append(tape, "diffuser")
    /\ UNCHANGED <<circuit, input, outcome, rest>>

IterationBoth ==
    /\ circuit.fn = "iteration" /\ pc < circuit.R /\ outcome = NotSampled
    /\ register' = Execute(Execute(register, OracleOf(circuit), Wires(circuit)),
                           GeneralDiffusor(circuit), Wires(circuit))
    /\ mirror' = Execute(Execute(mirror, OracleOf(circuit), Wires(circuit)),
                         AllButZeroDiffusor(circuit), Wires(circuit))
    /\ pc' = pc + 1
    /\ tape' = tape \o <<"oracle", "diffuser">>
    /\ UNCHANGED <<circuit, input, outcome, rest>>

SampleBoth ==
    /\ outcome = NotSampled
    /\ outcome' = Sampled(register, Wires(circuit), Measured(circuit))
    /\ tape' = Append(tape, "sample")
    /\ UNCHANGED <<circuit, pc, input, register, mirror, rest>>

NextVariants ==
    \/ DiffuserBoth
    \/ IterationBoth
    \/ SampleBoth

SpecVariants == InitVariants /\ [][NextVariants]_vars

----------------------------------------------------------------------------
(* Properties *)

Finished == pc = Len(Body(circuit)) + 1

\* the probability of the outcomes ms, as a numerator over 2^outcome.k
RECURSIVE ProbNum(_)
ProbNum(ms) ==
    IF ms = {} THEN Zero
    ELSE LET m == CHOOSE x \in ms : TRUE
         IN  Add(IF m \in DOMAIN outcome.num THEN outcome.num[m] ELSE Zero,
                 ProbNum(ms \ {m}))

\* num / 2^k, rounded to 0.1%, is permille/10 percent:
\* permille - 1/2 <= 1000 * num / 2^k < permille + 1/2
RoundsTo(num, k, permille) ==
    /\ Leq(Mul(Big(2 * permille - 1), Pow2(k)), Mul(Big(2000), num))
    /\ Less(Mul(Big(2000), num), Mul(Big(2 * permille + 1), Pow2(k)))

ToyGrover(n, R) ==
    /\ circuit.nb = "toy" /\ circuit.fn = "grover"
    /\ circuit.n = n /\ circuit.R = R
    /\ Finished

\* the two solutions the notebook names for 4 and for 6 tiles
Solutions4 == {<<0, 1, 1, 0>>, <<1, 0, 0, 1>>}
Solutions6 == {<<0, 1, 1, 0, 0, 1>>, <<1, 0, 0, 1, 1, 0>>}

SuccessRoundsTo(sols, permille) == RoundsTo(ProbNum(sols), outcome.k, permille)

\* C1: on the 2 x 2 grid, init_states and R grover_iterations give a
\* probability of measuring 0110 or 1001 on the tile qubits of 78.1% for
\* R = 1 and 94.5% for R = 2 (rounded to 0.1%).
C1_Grid4SuccessProbability ==
    /\ ToyGrover(4, 1) => SuccessRoundsTo(Solutions4, 781)
    /\ ToyGrover(4, 2) => SuccessRoundsTo(Solutions4, 945)

C1_Witness == ToyGrover(4, 2) /\ SuccessRoundsTo(Solutions4, 945)

\* C2: on the 6-tile and 8-tile grids the probability of measuring a
\* solution after R iterations is the table's: n = 6: 25.8%, 60.2%, 89.7%,
\* 99.9% for R = 1..4; n = 8: 6.9%, 18.3%, 33.7%, 51.1% for R = 1..4 and
\* 99.6% for R = 8.
C2_Grid6And8SuccessProbability ==
    /\ ToyGrover(6, 1) => SuccessRoundsTo(Solutions6, 258)
    /\ ToyGrover(6, 2) => SuccessRoundsTo(Solutions6, 602)
    /\ ToyGrover(6, 3) => SuccessRoundsTo(Solutions6, 897)
    /\ ToyGrover(6, 4) => SuccessRoundsTo(Solutions6, 999)
    /\ ToyGrover(8, 1) => SuccessRoundsTo(Solutions(8, grid_clause_list(8)), 69)
    /\ ToyGrover(8, 2) => SuccessRoundsTo(Solutions(8, grid_clause_list(8)), 183)
    /\ ToyGrover(8, 3) => SuccessRoundsTo(Solutions(8, grid_clause_list(8)), 337)
    /\ ToyGrover(8, 4) => SuccessRoundsTo(Solutions(8, grid_clause_list(8)), 511)
    /\ ToyGrover(8, 8) => SuccessRoundsTo(Solutions(8, grid_clause_list(8)), 996)

C2_Witness ==
    ToyGrover(8, 8) /\ SuccessRoundsTo(Solutions(8, grid_clause_list(8)), 996)

\* the stages a Grover circuit (the introduction's two grover_circuit, the
\* toy example's grover) must have applied when it is done
IsGrover(c) == c.fn \in {"grover_circuit", "grover"}
ConfiguredIterations(c) ==
    CASE c.nb = "intro2" -> 1
      [] c.nb = "introN" -> grover_iterations(c.n)
      [] c.nb = "toy" -> c.R
GroverOrder(c) ==
    IF c.nb = "toy"
    THEN <<"init_states">>
         \o Repeat(<<"oracle", "diffuser">>, ConfiguredIterations(c))
         \o <<"sample">>
    ELSE <<"state_preparation_gates">>
         \o Repeat(<<"oracle_gates", "diffusion_gates">>, ConfiguredIterations(c))
         \o <<"sample">>

\* C6: every Grover circuit applies state preparation once and first, then
\* exactly the configured number of iterations (grover_iterations in the
\* introduction, one in the toy grover), each one oracle immediately
\* followed by one diffuser, and samples only after the last diffuser: at
\* every moment the stages applied are the beginning of that order, and all
\* of it when the circuit is done.
C6_StageOrder ==
    IsGrover(circuit) =>
        /\ Len(tape) <= Len(GroverOrder(circuit))
        /\ tape = SubSeq(GroverOrder(circuit), 1, Len(tape))
        /\ Finished => tape = GroverOrder(circuit)

C6_Witness ==
    /\ circuit.nb = "introN" /\ circuit.fn = "grover_circuit" /\ Finished
    /\ tape = <<"state_preparation_gates", "oracle_gates", "diffusion_gates",
                "oracle_gates", "diffusion_gates", "oracle_gates",
                "diffusion_gates", "sample">>

----------------------------------------------------------------------------
(* One function run alone on an input *)

Alone(nb, fns) == circuit.nb = nb /\ circuit.fn \in fns
Applied == pc >= 1

\* the tile bits of a basis state of the device
TilesOf(b) == SubSeq(b, 1, circuit.n)
\* a basis state with tile bits t and every other wire at 0
WithTiles(t) == t \o [i \in 1..(Len(Wires(circuit)) - circuit.n) |-> 0]
OnTilesOnly(reg) == \A b \in DOMAIN reg.amp : b = WithTiles(TilesOf(b))

\* two registers' scales differ by a power of 2, so that their amplitudes
\* can be written over one denominator sqrt(2)^K
Commensurable(r1, r2) == (r1.k - r2.k) % 2 = 0
MaxK(r1, r2) == IF r1.k >= r2.k THEN r1.k ELSE r2.k
\* the amplitude of tile assignment t as a numerator over sqrt(2)^K
At(reg, t, K) == Mul(AmpOf(reg, WithTiles(t)), Pow2((K - reg.k) \div 2))
\* the sum over the tile assignments ts that agree on the bits before i,
\* taken by halves: those with bit i at 0, then those with bit i at 1
RECURSIVE SumFrom(_, _, _, _)
SumFrom(reg, ts, K, i) ==
    IF ts = {} THEN Zero
    ELSE IF i > circuit.n THEN At(reg, CHOOSE t \in ts : TRUE, K)
    ELSE LET zeros == SumFrom(reg, {t \in ts : t[i] = 0}, K, i + 1)
             ones  == SumFrom(reg, {t \in ts : t[i] = 1}, K, i + 1)
         IN  IF Len(zeros) > 0 /\ Len(ones) > 0 THEN Add(zeros, ones) ELSE Zero
SumAt(reg, ts, K) == SumFrom(reg, ts, K, 1)
\* 2^n times the overlap with psi, over sqrt(2)^K
SumAll(reg, K) == SumAt(reg, {TilesOf(b) : b \in DOMAIN reg.amp}, K)

\* out = (2|psi><psi| - I) in on the n tile (or register) qubits:
\* out[t] = 2 * mean(in) - in[t], with mean(in) = sum(in) / 2^n
IsReflection(in, out) ==
    LET K == MaxK(in, out)
    IN  /\ Commensurable(in, out)
        /\ OnTilesOnly(out)
        /\ \A t \in BitStrings(circuit.n) :
              Mul(Pow2(circuit.n), At(out, t, K))
                = Sub(Mul(Big(2), SumAll(in, K)), Mul(Pow2(circuit.n), At(in, t, K)))

\* out = -(2|psi><psi| - I) in = (I - 2|psi><psi|) in
IsMinusReflection(in, out) ==
    LET K == MaxK(in, out)
    IN  /\ Commensurable(in, out)
        /\ OnTilesOnly(out)
        /\ \A t \in BitStrings(circuit.n) :
              Mul(Pow2(circuit.n), At(out, t, K))
                = Sub(Mul(Pow2(circuit.n), At(in, t, K)), Mul(Big(2), SumAll(in, K)))

\* the part of the state along psi is the same in out as in in
UniformPartSame(in, out) ==
    Commensurable(in, out) /\ SumAll(out, MaxK(in, out)) = SumAll(in, MaxK(in, out))
\* the part of the state along psi is negated
UniformPartNegated(in, out) ==
    Commensurable(in, out) /\ SumAll(out, MaxK(in, out)) = Neg(SumAll(in, MaxK(in, out)))

\* the last wire, the toy example's result qubit, is in |->
ResultInMinus(reg) ==
    \A b \in DOMAIN reg.amp :
        AmpOf(reg, Flip(b, Len(b))) = Neg(reg.amp[b])

\* C3: the toy oracle, run on any tile state with the clause qubits at 0 and
\* the result qubit in |->, multiplies the amplitude of every tile
\* assignment that satisfies every clause of clause_list by -1 and leaves
\* every other amplitude, the clause qubits and the result qubit as they were.
C3_OracleMarksSolutions ==
    (Alone("toy", {"oracle"}) /\ Applied /\ ResultInMinus(input)) =>
        register =
            [amp |-> [b \in DOMAIN input.amp |->
                        IF Satisfies(TilesOf(b), circuit.clause_list)
                        THEN Neg(input.amp[b]) ELSE input.amp[b]],
             k |-> input.k]

\* (|0110> + |0111>)/sqrt(2) on the 2 x 2 grid becomes (-|0110> + |0111>)/sqrt(2)
C3_Witness ==
    /\ Alone("toy", {"oracle"}) /\ Applied
    /\ circuit.clause_list = clause_list_4
    /\ input = Embed(PairReg(<<0, 1, 1, 0>>, <<0, 1, 1, 1>>, 1), 4, "minus")
    /\ AmpOf(register, <<0, 1, 1, 0, 0, 0, 0, 0, 0>>) = <<-1>>
    /\ AmpOf(register, <<0, 1, 1, 1, 0, 0, 0, 0, 0>>) = <<1>>

\* the oracle's MultiControlledX fires on basis state b: every clause qubit is 1
ClausesAllOne(b) ==
    \A i \in 1..Len(circuit.clause_list) :
        b[Pos(Wires(circuit), clause_qubits(circuit)[i])] = 1
\* clause_circuit has left the tile basis state of the input as it was and
\* all clause qubits at 1 exactly for the tile assignments in sols
FiresExactlyFor(sols) ==
    \E b \in DOMAIN register.amp :
        /\ DOMAIN register.amp = {b}
        /\ WithTiles(TilesOf(b)) \in DOMAIN input.amp
        /\ ClausesAllOne(b) <=> TilesOf(b) \in sols

\* C4: of the 16 labelings of the 2 x 2 grid exactly 0110 and 1001 satisfy
\* every clause of [0,1],[0,2],[1,3],[2,3], and after clause_circuit on a
\* tile assignment every clause qubit is 1 (the oracle's MultiControlledX
\* fires) exactly for these two.
C4_Grid4Solutions ==
    /\ Solutions(4, clause_list_4) = Solutions4
    /\ Cardinality(Solutions(4, clause_list_4)) = 2
    /\ (Alone("toy", {"clause_circuit"}) /\ circuit.n = 4 /\ Applied)
            => FiresExactlyFor(Solutions4)

C4_Witness ==
    /\ Alone("toy", {"clause_circuit"}) /\ circuit.n = 4 /\ Applied
    /\ DOMAIN input.amp = {<<1, 0, 0, 1, 0, 0, 0, 0, 0>>}
    /\ DOMAIN register.amp = {<<1, 0, 0, 1, 1, 1, 1, 1, 0>>}

\* the clauses of a clause list, as a set of unordered pairs of tiles
ClauseSet(clause_list) ==
    {{clause_list[i][1], clause_list[i][2]} : i \in 1..Len(clause_list)}

\* C5: one clause per pair of edge-adjacent tiles of a grid two tiles wide,
\* numbered row by row, is the notebook's clause list for 4 tiles; for 6
\* tiles exactly 011001 and 100110 satisfy every clause, for 8 tiles
\* exactly two labelings do, and clause_circuit sets every clause qubit for
\* exactly these.
C5_Grid6And8Solutions ==
    /\ ClauseSet(grid_clause_list(4)) = ClauseSet(clause_list_4)
    /\ Solutions(6, grid_clause_list(6)) = Solutions6
    /\ Cardinality(Solutions(8, grid_clause_list(8))) = 2
    /\ (Alone("toy", {"clause_circuit"}) /\ circuit.n \in {6, 8} /\ Applied)
            => FiresExactlyFor(Solutions(circuit.n, circuit.clause_list))

C5_Witness ==
    /\ Alone("toy", {"clause_circuit"}) /\ circuit.n = 6 /\ Applied
    /\ DOMAIN input.amp = {<<0, 1, 1, 0, 0, 1, 0, 0, 0, 0, 0, 0, 0, 0>>}
    /\ DOMAIN register.amp = {<<0, 1, 1, 0, 0, 1, 1, 1, 1, 1, 1, 1, 1, 0>>}

\* the gates of the 2-qubit diffusion_gates between its Hadamards: Z, Z, CZ
MiddlePart_2q == SelectSeq(diffusion_gates_2q, LAMBDA op : op.name # "Hadamard")

\* C7: the 2-qubit diffusion_gates are exactly 2|psi><psi| - I: on every
\* 2-qubit state the part along psi stays and the part orthogonal to psi is
\* negated; their middle part CZ (Z x Z) negates the amplitudes of 01, 10
\* and 11 and leaves the one of 00.
C7_TwoQubitDiffusionIsReflection ==
    (Alone("intro2", {"diffusion_circuit"}) /\ Applied) =>
        /\ IsReflection(input, register)
        /\ UniformPartSame(input, register)
        /\ Len(MiddlePart_2q) = 3
        /\ Execute(input, MiddlePart_2q, Range(2))
             = [amp |-> [b \in DOMAIN input.amp |->
                           IF b = <<0, 0>> THEN input.amp[b] ELSE Neg(input.amp[b])],
                k |-> input.k]

\* |01> becomes (|00> - |01> + |10> + |11>)/2
C7_Witness ==
    /\ Alone("intro2", {"diffusion_circuit"}) /\ Applied
    /\ input = BasisReg(<<0, 1>>)
    /\ register = [amp |-> (<<0, 0>> :> <<1>>) @@ (<<0, 1>> :> <<-1>>)
                           @@ (<<1, 0>> :> <<1>>) @@ (<<1, 1>> :> <<1>>),
                   k |-> 2]

GeneralDiffuser ==
    Alone("toy", {"diffuser"}) \/ Alone("introN", {"diffusion_gates"})

\* C8 as the specification states it: the general diffuser leaves the part
\* of the state along psi and negates everything orthogonal to it.
C8_DiffuserIsReflection ==
    (GeneralDiffuser /\ Applied) =>
        /\ IsReflection(input, register)
        /\ UniformPartSame(input, register)

\* C8: the general n-qubit diffuser (diffuser(qubits) and the diffusion_gates
\* of Solution 2.3) is the reflection around the uniform superposition up to
\* a factor -1 on the whole state: on every state it negates the part along
\* psi and leaves everything orthogonal to psi as it is, I - 2|psi><psi|.
C8_DiffuserIsMinusReflection ==
    (GeneralDiffuser /\ Applied) =>
        /\ IsMinusReflection(input, register)
        /\ UniformPartNegated(input, register)

\* (|0000> - |0001>)/sqrt(2), orthogonal to psi, comes back as it was, and
\* |000> comes back as (3|000> - |001> - ... - |111>)/4
C8_Witness ==
    \/ /\ Alone("toy", {"diffuser"}) /\ Applied
       /\ input = Embed(PairReg(<<0, 0, 0, 0>>, <<0, 0, 0, 1>>, -1), 4, "zero")
       /\ register = input
    \/ /\ Alone("introN", {"diffusion_gates"}) /\ Applied
       /\ input = BasisReg(<<0, 0, 0>>)
       /\ register.k = 4
       /\ AmpOf(register, <<0, 0, 0>>) = <<3>>
       /\ \A b \in BitStrings(3) \ {<<0, 0, 0>>} : AmpOf(register, b) = <<-1>>

StatePreparation ==
    /\ \/ Alone("intro2", {"state_preparation_circuit"})
       \/ Alone("introN", {"state_preparation_gates"})
    /\ input = ZeroState(circuit.n)

\* C10: state preparation on the all-zero register, for 2 and for n qubits,
\* gives every one of the 2^n basis states the same amplitude 1/sqrt(2)^n,
\* and every outcome of the measurement the probability 1/2^n.
C10_StatePreparationUniform ==
    /\ (StatePreparation /\ Applied) =>
          register = [amp |-> [b \in BitStrings(circuit.n) |-> <<1>>], k |-> circuit.n]
    /\ (StatePreparation /\ Finished) =>
          /\ DOMAIN outcome.num = BitStrings(circuit.n)
          /\ \A m \in BitStrings(circuit.n) :
                Mul(outcome.num[m], Pow2(circuit.n)) = Pow2(outcome.k)

C10_Witness ==
    /\ StatePreparation /\ Finished
    /\ circuit.nb = "introN" /\ circuit.n = n_qubits
    /\ Cardinality(DOMAIN outcome.num) = 16
    /\ outcome.k = 4
    /\ outcome.num[<<1, 0, 0, 1>>] = <<1>>

Negated(reg) == [reg EXCEPT !.amp = [b \in DOMAIN reg.amp |-> Neg(reg.amp[b])]]

\* C9: on every input and after every number of repetitions, of the
\* diffusor alone or of the Grover iteration, the register of the variant
\* that changes the sign of only |00...0> and the register of the variant
\* that changes the sign of every state but |00...0> differ by one common
\* factor, -1 after an odd number of repetitions and 1 after an even
\* number, and give every outcome of the measurement the same probability.
C9_VariantsDifferByGlobalSign ==
    /\ mirror = IF pc % 2 = 0 THEN register ELSE Negated(register)
    /\ Sampled(mirror, Wires(circuit), Measured(circuit))
         = Sampled(register, Wires(circuit), Measured(circuit))
    /\ outcome # NotSampled =>
          outcome = Sampled(mirror, Wires(circuit), Measured(circuit))

C9_Witness ==
    /\ circuit.nb = "introN" /\ circuit.fn = "iteration" /\ pc = 3
    /\ input = BasisReg(<<0, 0, 1, 0>>)
    /\ mirror # register
    /\ mirror = Negated(register)
    /\ outcome = Sampled(mirror, Wires(circuit), Measured(circuit))

\* the distribution of all wires, and of the wires the circuit measures
AllWires(reg) == Sampled(reg, Wires(circuit), Wires(circuit))
MeasuredWires(reg) == Sampled(reg, Wires(circuit), Measured(circuit))

AtLeast(num, k, percent) == Leq(Mul(Big(percent), Pow2(k)), Mul(Big(100), num))
AtMost(num, k, percent) == Leq(Mul(Big(100), num), Mul(Big(percent), Pow2(k)))

IntroGrover(nb) == circuit.nb = nb /\ circuit.fn = "grover_circuit" /\ Finished

\* C12: the 2-qubit grover_circuit (state preparation, oracle CZ, diffusion,
\* once) gives 11 with probability at least 99% and 00, 01, 10 together with
\* at most 1%.
C12_TwoQubitGroverFindsSolution ==
    IntroGrover("intro2") =>
        /\ AtLeast(ProbNum({<<1, 1>>}), outcome.k, 99)
        /\ AtMost(ProbNum({<<0, 0>>, <<0, 1>>, <<1, 0>>}), outcome.k, 1)

\* the register is exactly |11> up to sign
C12_Witness ==
    /\ IntroGrover("intro2")
    /\ DOMAIN outcome.num = {<<1, 1>>}
    /\ DOMAIN register.amp = {<<1, 1>>}
    /\ tape = <<"state_preparation_gates", "oracle_gates", "diffusion_gates", "sample">>

\* C13: on every 4-qubit state the oracle_gates of Solution 2.2 negate the
\* amplitude of 1001 and leave the amplitudes of the other 15 basis states,
\* 1000 among them, as they were.
C13_FourQubitOracleMarks1001 ==
    (Alone("introN", {"oracle_gates"}) /\ Applied) =>
        /\ circuit.n = 4
        /\ register =
             [amp |-> [b \in DOMAIN input.amp |->
                         IF b = <<1, 0, 0, 1>> THEN Neg(input.amp[b]) ELSE input.amp[b]],
              k |-> input.k]

\* (|1000> + |1001>)/sqrt(2) becomes (|1000> - |1001>)/sqrt(2)
C13_Witness ==
    /\ Alone("introN", {"oracle_gates"}) /\ Applied
    /\ input = PairReg(<<1, 0, 0, 0>>, <<1, 0, 0, 1>>, 1)
    /\ register = PairReg(<<1, 0, 0, 0>>, <<1, 0, 0, 1>>, -1)

\* C14 as the specification states it: a shot of the 4-qubit grover_circuit
\* gives 1001 with probability at least 99%.
C14_FourQubitGroverAtLeast99 ==
    IntroGrover("introN") => AtLeast(ProbNum({<<1, 0, 0, 1>>}), outcome.k, 99)

\* C14: with n_qubits = 4 and the grover_iterations of the notebook's
\* formula, 3, a shot of grover_circuit gives the solution 1001 with
\* probability 96.1% (rounded to 0.1%): at least 96% and less than 99%.
C14_FourQubitGroverFindsSolution ==
    IntroGrover("introN") =>
        /\ circuit.n = 4 /\ circuit.R = 3
        /\ SuccessRoundsTo({<<1, 0, 0, 1>>}, 961)
        /\ AtLeast(ProbNum({<<1, 0, 0, 1>>}), outcome.k, 96)
        /\ ~AtLeast(ProbNum({<<1, 0, 0, 1>>}), outcome.k, 99)

C14_Witness ==
    /\ IntroGrover("introN")
    /\ Len(tape) = 8
    /\ SuccessRoundsTo({<<1, 0, 0, 1>>}, 961)

----------------------------------------------------------------------------
(* The higher dimensional example for other numbers of qubits and other    *)
(* solutions: n_qubits is set, grover_iterations is computed from it and   *)
(* grover_circuit runs state preparation and grover_iterations iterations. *)
(* history records the probability of the solution after the preparation   *)
(* and after every iteration.  For 2 qubits and solution 11 the oracle is  *)
(* the notebook's oracle_gates of Solution 1.3, for 4 qubits and solution  *)
(* 1001 that of Solution 2.2.                                              *)

QubitCounts == 2..6

SolutionStates(n) == {b \in BitStrings(n) : b[n] = 1}

IterationCircuits ==
    {[nb |-> "introN", fn |-> "grover_circuit", n |-> n, R |-> grover_iterations(n),
      clause_list |-> <<>>, solution |-> m] :
        <<n, m>> \in {q \in QubitCounts \X UNION {SolutionStates(n) : n \in QubitCounts} :
                        Len(q[2]) = q[1]}}

OracleFor(c) ==
    IF c.n = 2 /\ c.solution = <<1, 1>> THEN oracle_gates_2q
    ELSE IF c.n = n_qubits /\ c.solution = <<1, 0, 0, 1>> THEN oracle_gates(c.n)
    ELSE oracle_gates_for(c.n, c.solution)

\* the probability of the solution in reg, num / 2^k
SolutionProbability(reg, c) ==
    [num |-> Mul(AmpOf(reg, c.solution), AmpOf(reg, c.solution)), k |-> reg.k]

InitIterations ==
    /\ circuit \in IterationCircuits
    /\ pc = 0
    /\ input = ZeroState(circuit.n)
    /\ register = input
    /\ tape = <<>>
    /\ outcome = NotSampled
    /\ mirror = input
    /\ history = NoHistory
    /\ steps = NoSteps
    /\ globals = NoGlobals

\* state_preparation_gates()
Prepare ==
    /\ pc = 0
    /\ register' = Execute(register, state_preparation_gates(circuit.n), Wires(circuit))
    /\ history' = <<SolutionProbability(register', circuit)>>
    /\ pc' = 1
    /\ tape' = Append(tape, "state_preparation_gates")
    /\ UNCHANGED <<circuit, input, outcome, mirror, steps, globals>>

\* one pass of the loop: oracle_gates(), diffusion_gates()
Iterate ==
    /\ pc >= 1 /\ pc <= circuit.R
    /\ register' = Execute(Execute(register, OracleFor(circuit), Wires(circuit)),
                           diffusion_gates(circuit.n), Wires(circuit))
    /\ history' = Append(history, SolutionProbability(register', circuit))
    /\ pc' = pc + 1
    /\ tape' = tape \o <<"oracle_gates", "diffusion_gates">>
    /\ UNCHANGED <<circuit, input, outcome, mirror, steps, globals>>

\* return qml.sample()
SampleIterations ==
    /\ pc = circuit.R + 1
    /\ outcome' = Sampled(register, Wires(circuit), Measured(circuit))
    /\ pc' = pc + 1
    /\ tape' = Append(tape, "sample")
    /\ UNCHANGED <<circuit, input, register, mirror, rest>>

NextIterations ==
    \/ Prepare
    \/ Iterate
    \/ SampleIterations

SpecIterations == InitIterations /\ [][NextIterations]_vars

\* p <= q for probabilities num / 2^k
ProbLeq(p, q) == Leq(Mul(p.num, Pow2(q.k)), Mul(q.num, Pow2(p.k)))

\* all grover_iterations iterations are done
IterationsDone == pc > circuit.R
\* no iteration count from 0 to grover_iterations gave the solution a higher
\* probability than grover_iterations itself
LastIsBest == \A i \in 1..Len(history) : ProbLeq(history[i], history[Len(history)])

\* C15: grover_iterations = ceil(sqrt(2^n_qubits)*pi/4 - 0.5) maximises the
\* probability of the solution: for every n_qubits from 2 to 6 and one
\* marked state, no iteration count between 0 and grover_iterations gives a
\* higher probability of the solution than grover_iterations itself.
C15_GroverIterationsMaximise ==
    IterationsDone => LastIsBest

\* what does hold: from 3 to 6 qubits grover_iterations (2, 3, 4, 6) is the
\* best count up to itself, and for 2 qubits grover_iterations is 2, where
\* one iteration gives the solution for certain and two give it with
\* probability 1/4.
C15_MaximiseFromThreeQubits ==
    /\ (IterationsDone /\ circuit.n >= 3) => LastIsBest
    /\ (IterationsDone /\ circuit.n = 2) =>
          /\ circuit.R = 2
          /\ history[2] = [num |-> <<1>>, k |-> 0]
          /\ Mul(history[3].num, Big(4)) = Pow2(history[3].k)

C15_Witness ==
    /\ IterationsDone
    /\ circuit.n = 2 /\ circuit.solution = <<1, 1>>
    /\ history[2] = [num |-> <<1>>, k |-> 0]
    /\ ~LastIsBest

----------------------------------------------------------------------------
(* Task 3 of the toy example: the iteration steps                          *)
(*   R_opt = pi/4 * sqrt(N/M) - 1/2   and   R_0.5 = pi/8 * sqrt(N/M) - 1/2  *)
(* for n tiles (N = 2^n) and M solutions, to one decimal as in the table.  *)
(* steps.tenths is 10 times the rounded value.                             *)

MaxTiles == 8
MaxSolutions == 4

\* R rounds to d/10 when d/10 - 1/20 <= R < d/10 + 1/20, that is
\*   (2d + 9)/20 <= pi/q * sqrt(N/M) < (2d + 11)/20     (q = 4 or 8)
\*   25 * q^2 * (2d + 9)^2 * M <= 10000 * pi^2 * N < 25 * q^2 * (2d + 11)^2 * M
\* pi^2 lies between 9.8696 and 9.8697
Rounded(q, n, M) ==
    CHOOSE d \in -4..(10 * 2^n) :
        /\ 25 * q * q * (2 * d + 9) * (2 * d + 9) * M <= 98696 * 2^n
        /\ 98697 * 2^n < 25 * q * q * (2 * d + 11) * (2 * d + 11) * M
\* R_opt with the factor of R_0.5
R_opt_with_pi_over_8(n, M) == Rounded(8, n, M)

R_opt(n, M) == Rounded(4, n, M)
R_half(n, M) == Rounded(8, n, M)

InitSteps ==
    /\ steps \in {x \in [formula : {"R_opt", "R_0.5"}, n : 1..MaxTiles,
                          M : 1..MaxSolutions, tenths : {0}] : x.M <= 2^(x.n)}
    /\ circuit = Cfg("toy", "none", steps.n, 0, <<>>)
    /\ pc = 0
    /\ input = ZeroState(0)
    /\ register = input
    /\ tape = <<>>
    /\ outcome = NotSampled
    /\ mirror = input
    /\ history = NoHistory
    /\ globals = NoGlobals

Calculate ==
    /\ pc = 0
    /\ steps' = [steps EXCEPT !.tenths = IF steps.formula = "R_opt"
                                         THEN R_opt(steps.n, steps.M)
                                         ELSE R_half(steps.n, steps.M)]
    /\ pc' = 1
    /\ tape' = Append(tape, steps.formula)
    /\ UNCHANGED <<circuit, input, register, outcome, mirror, history, globals>>

NextSteps == Calculate

SpecSteps == InitSteps /\ [][NextSteps]_vars

Calculated(f, n, M) ==
    pc = 1 /\ steps.formula = f /\ steps.n = n /\ steps.M = M

\* C16: for M = 2 solutions and n = 4, 6, 8 tiles, R_opt is 1.7, 3.9, 8.4
\* and R_0.5 is 0.6, 1.7, 3.9, to one decimal.
C16_IterationStepsTable ==
    /\ Calculated("R_opt", 4, 2) => steps.tenths = 17
    /\ Calculated("R_opt", 6, 2) => steps.tenths = 39
    /\ Calculated("R_opt", 8, 2) => steps.tenths = 84
    /\ Calculated("R_0.5", 4, 2) => steps.tenths = 6
    /\ Calculated("R_0.5", 6, 2) => steps.tenths = 17
    /\ Calculated("R_0.5", 8, 2) => steps.tenths = 39

C16_Witness == Calculated("R_opt", 8, 2) /\ steps.tenths = 84

----------------------------------------------------------------------------
(* The introduction's kernel.  A notebook's cells can be run in any order  *)
(* and again; every cell binds global names or calls a circuit.  The gate  *)
(* functions of the 2-qubit and of the n-qubit example have the same names *)
(* (state_preparation_gates, oracle_gates, diffusion_gates), as have the   *)
(* two grover_circuit.  Python looks a global name up when the function    *)
(* body runs, so a circuit applies the gates of whatever its names are     *)
(* bound to when it is called.  globals holds, per name, the cell that     *)
(* bound it: "2q" or "n" for a gate function, the value for n_qubits (0:   *)
(* not bound) and grover_iterations (-1: not bound), and for a circuit the *)
(* body it was defined with together with at_definition, the bindings of   *)
(* the other names at that moment.  tape is the list of gates the last     *)
(* cell applied and circuit.fn the circuit it called.                      *)

GateNames == {"state_preparation_gates", "oracle_gates", "diffusion_gates"}
Unbound == [body |-> "unbound", at_definition |-> <<>>]

\* the bindings a circuit's body reads
Names(g) == [state_preparation_gates |-> g.state_preparation_gates,
             oracle_gates |-> g.oracle_gates,
             diffusion_gates |-> g.diffusion_gates,
             n_qubits |-> g.n_qubits,
             grover_iterations |-> g.grover_iterations]

\* calling the gate function `name` under the bindings g raises no NameError
Callable(name, g) ==
    /\ g[name] # "unbound"
    /\ g[name] = "n" => g.n_qubits # 0

\* the gates the gate function `name` queues under the bindings g
GatesOf(name, g) ==
    CASE name = "state_preparation_gates" ->
            IF g[name] = "2q" THEN state_preparation_gates_2q
            ELSE state_preparation_gates(g.n_qubits)
      [] name = "oracle_gates" ->
            IF g[name] = "2q" THEN oracle_gates_2q ELSE oracle_gates(g.n_qubits)
      [] name = "diffusion_gates" ->
            IF g[name] = "2q" THEN diffusion_gates_2q ELSE diffusion_gates(g.n_qubits)

\* the bodies: state_preparation_circuit, the 2-qubit grover_circuit and
\* the n-qubit grover_circuit
Reads(body) ==
    IF body = "state_preparation_circuit" THEN {"state_preparation_gates"} ELSE GateNames
CallableBody(body, g) ==
    /\ \A name \in Reads(body) : Callable(name, g)
    /\ body = "grover_circuit_n" => g.grover_iterations >= 0
GatesOfBody(body, g) ==
    CASE body = "state_preparation_circuit" -> GatesOf("state_preparation_gates", g)
      [] body = "grover_circuit_2q" ->
            GatesOf("state_preparation_gates", g) \o GatesOf("oracle_gates", g)
            \o GatesOf("diffusion_gates", g)
      [] body = "grover_circuit_n" ->
            GatesOf("state_preparation_gates", g)
            \o Repeat(GatesOf("oracle_gates", g) \o GatesOf("diffusion_gates", g),
                      g.grover_iterations)

NoCall == Cfg("intro", "none", 0, 0, <<>>)

InitCells ==
    /\ globals = [state_preparation_gates |-> "unbound", oracle_gates |-> "unbound",
                  diffusion_gates |-> "unbound", n_qubits |-> 0,
                  grover_iterations |-> -1,
                  state_preparation_circuit |-> Unbound, grover_circuit |-> Unbound]
    /\ circuit = NoCall
    /\ pc = 0
    /\ input = ZeroState(0)
    /\ register = input
    /\ tape = <<>>
    /\ outcome = NotSampled
    /\ mirror = input
    /\ history = NoHistory
    /\ steps = NoSteps

\* the cell calls no circuit
CallsNothing ==
    /\ circuit' = NoCall
    /\ tape' = <<>>
    /\ UNCHANGED <<pc, input, register, outcome, mirror, history, steps>>

\* a circuit as its cell defines it now
Definition(body) == [body |-> body, at_definition |-> Names(globals)]

\* the circuit bound to `name` can be called
CanCall(name) ==
    /\ globals[name] # Unbound
    /\ CallableBody(globals[name].body, globals)

\* the circuit bound to `name` runs
Applies(name) ==
    /\ tape' = GatesOfBody(globals[name].body, globals)
    /\ circuit' = Cfg("intro", name, 0, 0, <<>>)
    /\ UNCHANGED <<globals, pc, input, register, outcome, mirror, history, steps>>

\* def state_preparation_gates(), 2 qubits
DefStatePreparationGates2q ==
    /\ globals' = [globals EXCEPT !.state_preparation_gates = "2q"]
    /\ CallsNothing

\* def oracle_gates(), 2 qubits
DefOracleGates2q ==
    /\ globals' = [globals EXCEPT !.oracle_gates = "2q"]
    /\ CallsNothing

\* def diffusion_gates(), 2 qubits
DefDiffusionGates2q ==
    /\ globals' = [globals EXCEPT !.diffusion_gates = "2q"]
    /\ CallsNothing

\* def state_preparation_circuit(); the circuits are defined once the names
\* they read can be called
DefStatePreparationCircuit ==
    /\ CallableBody("state_preparation_circuit", globals)
    /\ globals' = [globals EXCEPT !.state_preparation_circuit =
                                    Definition("state_preparation_circuit")]
    /\ CallsNothing

\* def grover_circuit(), 2 qubits
DefGroverCircuit2q ==
    /\ CallableBody("grover_circuit_2q", globals)
    /\ globals' = [globals EXCEPT !.grover_circuit = Definition("grover_circuit_2q")]
    /\ CallsNothing

\* n_qubits = 4
SetNQubits ==
    /\ globals' = [globals EXCEPT !.n_qubits = n_qubits]
    /\ CallsNothing

\* def state_preparation_gates(), n qubits
DefStatePreparationGatesN ==
    /\ globals' = [globals EXCEPT !.state_preparation_gates = "n"]
    /\ CallsNothing

\* def oracle_gates(), n qubits
DefOracleGatesN ==
    /\ globals' = [globals EXCEPT !.oracle_gates = "n"]
    /\ CallsNothing

\* def diffusion_gates(), n qubits
DefDiffusionGatesN ==
    /\ globals' = [globals EXCEPT !.diffusion_gates = "n"]
    /\ CallsNothing

\* grover_iterations = int(np.ceil(np.sqrt(2**n_qubits)*np.pi/4.0 - 0.5))
SetGroverIterations ==
    /\ globals.n_qubits # 0
    /\ globals' = [globals EXCEPT !.grover_iterations = grover_iterations(globals.n_qubits)]
    /\ CallsNothing

\* def grover_circuit(), n qubits
DefGroverCircuitN ==
    /\ CallableBody("grover_circuit_n", globals)
    /\ globals' = [globals EXCEPT !.grover_circuit = Definition("grover_circuit_n")]
    /\ CallsNothing

\* state_preparation_circuit()
CallStatePreparationCircuit ==
    /\ CanCall("state_preparation_circuit")
    /\ Applies("state_preparation_circuit")

\* grover_circuit()
CallGroverCircuit ==
    /\ CanCall("grover_circuit")
    /\ Applies("grover_circuit")

NextCells ==
    \/ DefStatePreparationGates2q
    \/ DefOracleGates2q
    \/ DefDiffusionGates2q
    \/ DefStatePreparationCircuit
    \/ DefGroverCircuit2q
    \/ SetNQubits
    \/ DefStatePreparationGatesN
    \/ DefOracleGatesN
    \/ DefDiffusionGatesN
    \/ SetGroverIterations
    \/ DefGroverCircuitN
    \/ CallStatePreparationCircuit
    \/ CallGroverCircuit

SpecCells == InitCells /\ [][NextCells]_vars

Called == circuit.fn # "none"
CalledCircuit == globals[circuit.fn]

\* C17: the gates a circuit applies when it is called are those of the
\* definitions in force when the circuit was defined, whatever cells
\* (redefinitions of state_preparation_gates, oracle_gates, diffusion_gates,
\* n_qubits, grover_iterations) were run between its definition and the call.
C17_GatesDependOnDefinitionOnly ==
    Called => tape = GatesOfBody(CalledCircuit.body, CalledCircuit.at_definition)

\* what does hold: a call applies the gates of the bindings at the call, so
\* it applies those of the circuit's definition when no name the circuit
\* reads was bound to something else in between.
C17_GatesDependOnBindingsAtCall ==
    Called =>
        /\ tape = GatesOfBody(CalledCircuit.body, Names(globals))
        /\ Names(globals) = CalledCircuit.at_definition
              => tape = GatesOfBody(CalledCircuit.body, CalledCircuit.at_definition)

\* state_preparation_circuit, defined for 2 qubits, applies four Hadamards
\* once the n-qubit state_preparation_gates has been defined
C17_Witness ==
    /\ circuit.fn = "state_preparation_circuit"
    /\ CalledCircuit.at_definition.state_preparation_gates = "2q"
    /\ globals.state_preparation_gates = "n"
    /\ tape = Each("Hadamard", Range(4))

====
